---- MODULE Spec2Model ----
(***************************************************************************)
(* Model of the flash-report ingestion of the sales dashboard:             *)
(*   data_loader.py  parse_date_from_cell, safe_float, safe_int,           *)
(*                   parse_flash_report, load_all_reports                  *)
(*   dashboard.py    get_data (st.cache_data) and the Refresh Data button  *)
(*                                                                         *)
(* Text is modelled as a sequence of one-character strings so that the     *)
(* regular-expression searches, the substring tests and strip() are        *)
(* computed character by character, as Python computes them.               *)
(***************************************************************************)
EXTENDS Integers, Sequences, FiniteSets, TLC

----------------------------------------------------------------------------
(* Bounds of the model *)

\* most files the directory enumeration returns
MaxFiles == 3
\* modification times are 1..MaxMtime
MaxMtime == 2
\* label rows filled in per region of a sheet (the others are empty cells)
MaxLabelRows == 2

----------------------------------------------------------------------------
(* Python values *)

None == [t |-> "None"]
Str(s) == [t |-> "str", s |-> s]

Digits == {"0", "1", "2", "3", "4", "5", "6", "7", "8", "9"}

DigitVal(c) ==
  CASE c = "0" -> 0 [] c = "1" -> 1 [] c = "2" -> 2 [] c = "3" -> 3
    [] c = "4" -> 4 [] c = "5" -> 5 [] c = "6" -> 6 [] c = "7" -> 7
    [] c = "8" -> 8 [] c = "9" -> 9

RECURSIVE NumVal(_)
\* int() of a run of decimal digits
NumVal(s) ==
  IF s = <<>> THEN 0
  ELSE 10 * NumVal(SubSeq(s, 1, Len(s) - 1)) + DigitVal(s[Len(s)])

AllDigits(s, a, b) == \A k \in a..b : s[k] \in Digits

\* sub in s  (Python's substring test on str)
Contains(s, sub) ==
  \E i \in 1..(Len(s) - Len(sub) + 1) : SubSeq(s, i, i + Len(sub) - 1) = sub

Whitespace == {" ", "\t", "\n"}

RECURSIVE LStrip(_)
LStrip(s) ==
  IF s # <<>> /\ s[1] \in Whitespace THEN LStrip(Tail(s)) ELSE s

RECURSIVE RStrip(_)
RStrip(s) ==
  IF s # <<>> /\ s[Len(s)] \in Whitespace
  THEN RStrip(SubSeq(s, 1, Len(s) - 1)) ELSE s

\* str.strip()
Strip(s) == RStrip(LStrip(s))

\* truthiness of a cell value: None and '' are falsy
Truthy(v) == v.t = "str" /\ v.s # <<>>

Min(S) == CHOOSE x \in S : \A y \in S : x <= y

UPPER == <<"A", "B", "C", "D", "E", "F", "G", "H", "I", "J", "K", "L", "M",
           "N", "O", "P", "Q", "R", "S", "T", "U", "V", "W", "X", "Y", "Z">>
LOWER == <<"a", "b", "c", "d", "e", "f", "g", "h", "i", "j", "k", "l", "m",
           "n", "o", "p", "q", "r", "s", "t", "u", "v", "w", "x", "y", "z">>

LowerChar(c) ==
  IF \E k \in 1..Len(UPPER) : UPPER[k] = c
  THEN LOWER[CHOOSE k \in 1..Len(UPPER) : UPPER[k] = c]
  ELSE c

\* str.lower()
Lower(s) == [k \in 1..Len(s) |-> LowerChar(s[k])]

----------------------------------------------------------------------------
(* parse_date_from_cell *)

\* datetime.date
Date(y, m, d) == [t |-> "date", y |-> y, m |-> m, d |-> d]

\* dates order like the calendar
DateKey(dt) == dt.y * 10000 + dt.m * 100 + dt.d

IsLeap(y) == (y % 4 = 0 /\ y % 100 # 0) \/ y % 400 = 0

DaysInMonth(y, m) ==
  IF m = 2 THEN (IF IsLeap(y) THEN 29 ELSE 28)
  ELSE IF m \in {4, 6, 9, 11} THEN 30 ELSE 31

\* the digits of month (a of them) and day (b of them) of a match of
\* \d{1,2}/\d{1,2}/\d{4} that starts at i.  The digit runs fix a and b, so
\* there is at most one.
DateTokenAt(s, i) ==
  { ab \in {1, 2} \X {1, 2} :
      /\ i + ab[1] + ab[2] + 5 <= Len(s)
      /\ AllDigits(s, i, i + ab[1] - 1)
      /\ s[i + ab[1]] = "/"
      /\ AllDigits(s, i + ab[1] + 1, i + ab[1] + ab[2])
      /\ s[i + ab[1] + ab[2] + 1] = "/"
      /\ AllDigits(s, i + ab[1] + ab[2] + 2, i + ab[1] + ab[2] + 5) }

\* the groups of the match at i whose month has ab[1] digits and whose day
\* has ab[2]
DateMatch(s, i, ab) ==
  [t |-> "match",
   m |-> SubSeq(s, i, i + ab[1] - 1),
   d |-> SubSeq(s, i + ab[1] + 1, i + ab[1] + ab[2]),
   y |-> SubSeq(s, i + ab[1] + ab[2] + 2, i + ab[1] + ab[2] + 5)]

RECURSIVE DateSearchFrom(_, _)
\* the match of the pattern at the first start from i on that has one
DateSearchFrom(s, i) ==
  IF i > Len(s) THEN None
  ELSE IF s[i] \notin Digits \/ DateTokenAt(s, i) = {}
  THEN DateSearchFrom(s, i + 1)
  ELSE DateMatch(s, i, CHOOSE ab \in DateTokenAt(s, i) : TRUE)

\* re.search(r'(\d{1,2}/\d{1,2}/\d{4})', s): the leftmost match, None when
\* there is none
DateSearch(s) == DateSearchFrom(s, 1)

\* the date of month m, day d, year y; ValueError when there is none
DateOrError(m, d, y) ==
  IF m \in 1..12 /\ y >= 1 /\ d >= 1 /\ d <= DaysInMonth(y, m)
  THEN [ret |-> "value", value |-> Date(y, m, d)]
  ELSE [ret |-> "raise", exc |-> "ValueError"]

\* datetime.strptime(token, '%m/%d/%Y').date()
Strptime(tok) == DateOrError(NumVal(tok.m), NumVal(tok.d), NumVal(tok.y))

\* a header without a date token taken for a report of 2/21/2026
DateOfMatch_DefaultDate(match) ==
  IF match # None THEN Strptime(match)
  ELSE [ret |-> "value", value |-> Date(2026, 2, 21)]

\* lines 19-21
DateOfMatch(match) ==
  IF match # None THEN Strptime(match)
  ELSE [ret |-> "value", value |-> None]

parse_date_from_cell(value) ==
  IF ~Truthy(value) THEN [ret |-> "value", value |-> None]
  ELSE DateOfMatch(DateSearch(value.s))

----------------------------------------------------------------------------
(* safe_float and safe_int *)

\* A cell value is None, a str, an int (IntCell), a float, or a value
\* of another type (a datetime).  A float is finite, with its sign, its whole
\* part and the digits of its fraction, or an infinity, or a not-a-number.

IntCell(v) == [t |-> "int", v |-> v]
DateTime == [t |-> "datetime"]

RECURSIVE TrimZeros(_)
\* the digits of a fraction without the zeros at its end
TrimZeros(d) ==
  IF d # <<>> /\ d[Len(d)] = "0" THEN TrimZeros(SubSeq(d, 1, Len(d) - 1))
  ELSE d

Fin(neg, whole, frac) ==
  [t |-> "float", k |-> "fin", neg |-> neg, whole |-> whole,
   frac |-> TrimZeros(frac)]
Inf(neg) == [t |-> "float", k |-> "inf", neg |-> neg]
NaN == [t |-> "float", k |-> "nan"]

Returns(v) == [ret |-> "value", value |-> v]
Raises(exc) == [ret |-> "raise", exc |-> exc]

INF == <<"i", "n", "f">>
INFINITY == <<"i", "n", "f", "i", "n", "i", "t", "y">>
NAN == <<"n", "a", "n">>

\* digits '.' digits with a digit on one side at least, the '.' being at p
ParseWithDot(neg, r, p) ==
  IF Len(r) > 1 /\ AllDigits(r, 1, p - 1) /\ AllDigits(r, p + 1, Len(r))
  THEN Returns(Fin(neg, NumVal(SubSeq(r, 1, p - 1)),
                   SubSeq(r, p + 1, Len(r))))
  ELSE Raises("ValueError")

\* a decimal numeral without sign (the numerals of the model have no
\* exponent and no underscore)
ParseDecimal(neg, r) ==
  IF \E p \in 1..Len(r) : r[p] = "."
  THEN ParseWithDot(neg, r, Min({ p \in 1..Len(r) : r[p] = "." }))
  ELSE IF r # <<>> /\ AllDigits(r, 1, Len(r))
  THEN Returns(Fin(neg, NumVal(r), <<>>))
  ELSE Raises("ValueError")

\* 'inf', 'infinity' and 'nan' in any letter case, or a decimal numeral
ParseUnsigned(neg, r) ==
  IF Lower(r) \in {INF, INFINITY} THEN Returns(Inf(neg))
  ELSE IF Lower(r) = NAN THEN Returns(NaN)
  ELSE ParseDecimal(neg, r)

\* an optional sign, then the numeral
ParseSigned(s) ==
  IF s # <<>> /\ s[1] \in {"+", "-"} THEN ParseUnsigned(s[1] = "-", Tail(s))
  ELSE ParseUnsigned(FALSE, s)

\* float(s) of a str: white space around the numeral is dropped
FloatOfStr(s) == ParseSigned(Strip(s))

\* float(val)
float(val) ==
  CASE val.t = "str" -> FloatOfStr(val.s)
    [] val.t = "float" -> Returns(val)
    [] val.t = "int" ->
         Returns(Fin(val.v < 0, IF val.v < 0 THEN -val.v ELSE val.v, <<>>))
    [] OTHER -> Raises("TypeError")

\* int(x) of a float floored: towards minus infinity
int_Floor(x) ==
  CASE x.k = "fin" ->
         Returns(IF x.neg /\ x.frac # <<>> THEN -(x.whole + 1)
                 ELSE IF x.neg THEN -x.whole ELSE x.whole)
    [] x.k = "inf" -> Raises("OverflowError")
    [] x.k = "nan" -> Raises("ValueError")

\* int(x) of a float: the fraction is dropped; OverflowError for an infinity,
\* ValueError for a not-a-number
int(x) ==
  CASE x.k = "fin" -> Returns(IF x.neg THEN -x.whole ELSE x.whole)
    [] x.k = "inf" -> Raises("OverflowError")
    [] x.k = "nan" -> Raises("ValueError")

\* val is None or val == '' or val == '-'  (lines 26 and 36)
IsEmptyCell(val) ==
  val = None \/ val = Str(<<>>) \/ val = Str(<<"-">>)

DEFAULT_FLOAT == Fin(FALSE, 0, <<>>)
DEFAULT_INT == 0

\* try: ... except (ValueError, TypeError): return default
ExceptValueType(o, default) ==
  IF o.ret = "raise" /\ o.exc \in {"ValueError", "TypeError"}
  THEN Returns(default)
  ELSE o

safe_float(val) ==
  IF IsEmptyCell(val) THEN Returns(DEFAULT_FLOAT)
  ELSE ExceptValueType(float(val), DEFAULT_FLOAT)

\* int(float(val)), o being what float(val) did
IntOf(o) == IF o.ret = "raise" THEN o ELSE int(o.value)

\* int(float(val)) with no test of the cell and no handler
safe_int_Unguarded(val) ==
  IF val = None THEN Raises("TypeError") ELSE IntOf(float(val))

safe_int(val) ==
  IF IsEmptyCell(val) THEN Returns(DEFAULT_INT)
  ELSE ExceptValueType(IntOf(float(val)), DEFAULT_INT)

----------------------------------------------------------------------------
(* The files of the folder *)

\* A file is
\*   path      the part of its basename that the * of the glob pattern
\*             Multibrand_FlashReport*.xlsx stands for
\*   mtime     its modification time
\*   readable  load_workbook opens it
\*   has_sheet the workbook has the sheet Multibrand_DailyFlashReport
\*   statable  os.path.getmtime succeeds
\*   a2        the value of cell A2
\*   labels    the label cells (column 1) at the top of each of the four
\*             regions of the sheet; the label cells below them are empty
\*   cell      the value that the numeric cells of the sheet hold

FIRST_SALES_ROW == 8
LAST_SALES_ROW == 15
BRAND_TOTAL_ROW == 16
FIRST_TRANS_ROW == 54
LAST_TRANS_ROW == 61
FIRST_CHANNEL_ROW == 66
LAST_CHANNEL_ROW == 73
FIRST_LABOR_ROW == 78
LAST_LABOR_ROW == 85

\* the first row of the region a row is in
RegionFirst(row) ==
  IF row >= FIRST_LABOR_ROW THEN FIRST_LABOR_ROW
  ELSE IF row >= FIRST_CHANNEL_ROW THEN FIRST_CHANNEL_ROW
  ELSE IF row >= FIRST_TRANS_ROW THEN FIRST_TRANS_ROW
  ELSE FIRST_SALES_ROW

\* ws.cell(row=row, column=1).value
Label(f, row) ==
  LET k == row - RegionFirst(row) + 1
  IN  IF k <= Len(f.labels) THEN f.labels[k] ELSE None

\* ws.cell(row=row, column=col).value for the numeric columns
CellValue(f, row, col) == f.cell

----------------------------------------------------------------------------
(* parse_flash_report *)

TOTALS == <<"T", "o", "t", "a", "l", "s">>
BRAND == <<"B", "r", "a", "n", "d">>

\* the test of lines 62, 118, 149, 180: the row is skipped
SkipRow(store_name, skipBrand) ==
  \/ ~Truthy(store_name)
  \/ Contains(store_name.s, TOTALS)
  \/ skipBrand /\ Contains(store_name.s, BRAND)

\* column 2 of a row, coerced: day_trans_ty of the transactions region with
\* safe_int (line 123), day_sales_ty, avg_check_ty and labor_dollars of the
\* other regions with safe_float (lines 67, 92, 154, 185)
Col2(f, row) ==
  IF RegionFirst(row) = FIRST_TRANS_ROW THEN safe_int(CellValue(f, row, 2))
  ELSE safe_float(CellValue(f, row, 2))

\* column 7 of a row of the channel region, dine_in_trans (line 159)
Col7(f, row) == safe_int(CellValue(f, row, 7))

\* an exception leaves the coercions of a row
RowRaises(f, row) ==
  \/ Col2(f, row).ret = "raise"
  \/ RegionFirst(row) = FIRST_CHANNEL_ROW /\ Col7(f, row).ret = "raise"

\* one record of a per-store list.  The numeric columns are read by position
\* from row `row` of the file `src`; the record keeps where they came from
\* and, of the numeric columns, column 2.
StoreRecord(f, report_date, row) ==
  [date |-> report_date, store |-> Strip(Label(f, row).s),
   src |-> f.path, row |-> row, col2 |-> Col2(f, row).value]

RECURSIVE ScanRows(_, _, _, _, _)
\* for row_num in range(first, last + 1): ... records.append({...})
ScanRows(f, report_date, first, last, skipBrand) ==
  IF first > last THEN <<>>
  ELSE LET rest == ScanRows(f, report_date, first + 1, last, skipBrand)
       IN  IF SkipRow(Label(f, first), skipBrand) THEN rest
           ELSE <<StoreRecord(f, report_date, first)>> \o rest

\* the brand totals are read from the fixed row 16
BrandTotal(f, report_date) ==
  [date |-> report_date, src |-> f.path, row |-> BRAND_TOTAL_ROW,
   col2 |-> Col2(f, BRAND_TOTAL_ROW).value]

\* the rows of the sheet that the four loops and the brand total read
ScannedRows ==
  (FIRST_SALES_ROW..BRAND_TOTAL_ROW) \cup (FIRST_TRANS_ROW..LAST_TRANS_ROW)
    \cup (FIRST_CHANNEL_ROW..LAST_CHANNEL_ROW)
    \cup (FIRST_LABOR_ROW..LAST_LABOR_ROW)

\* an exception leaves a coercion while the rows are read: OverflowError,
\* the one that safe_int lets through.  The rows are looked at when the
\* value of the cells is one that a coercion raises on.
ScanRaises(f) ==
  /\ safe_float(f.cell).ret = "raise" \/ safe_int(f.cell).ret = "raise"
  /\ \E row \in ScannedRows :
       /\ RowRaises(f, row)
       /\ \/ row = BRAND_TOTAL_ROW
          \/ ~SkipRow(Label(f, row), row <= LAST_SALES_ROW)

\* lines 58-206: the returned dict
Sections(f, report_date) ==
  [t |-> "dict",
   date |-> report_date,
   sales |-> ScanRows(f, report_date, FIRST_SALES_ROW, LAST_SALES_ROW, TRUE),
   brand_total |-> BrandTotal(f, report_date),
   transactions |-> ScanRows(f, report_date, FIRST_TRANS_ROW, LAST_TRANS_ROW,
                             FALSE),
   channels |-> ScanRows(f, report_date, FIRST_CHANNEL_ROW, LAST_CHANNEL_ROW,
                         FALSE),
   labor |-> ScanRows(f, report_date, FIRST_LABOR_ROW, LAST_LABOR_ROW,
                      FALSE)]

\* lines 53-206, rd being what parse_date_from_cell did.  wb is the workbook
\* when the function is left: "closed" by wb.close() (lines 55 and 197),
\* "open" when no wb.close() was run, "none" when load_workbook gave none.
ReportOf(f, rd) ==
  IF rd.ret = "raise" THEN [ret |-> "raise", exc |-> rd.exc, wb |-> "open"]
  ELSE IF rd.value = None
  THEN [ret |-> "value", value |-> None, wb |-> "closed"]
  ELSE IF ScanRaises(f)
  THEN [ret |-> "raise", exc |-> "OverflowError", wb |-> "open"]
  ELSE [ret |-> "value", value |-> Sections(f, rd.value), wb |-> "closed"]

parse_flash_report(f) ==
  IF ~f.readable
  THEN [ret |-> "raise", exc |-> "InvalidFileException", wb |-> "none"]
  ELSE IF ~f.has_sheet
  THEN [ret |-> "raise", exc |-> "KeyError", wb |-> "open"]
  ELSE ReportOf(f, parse_date_from_cell(f.a2))

----------------------------------------------------------------------------
(* load_all_reports: the first pass *)

PREFERRED_SUFFIXES == { <<"[", "7", "4", "]">> }

\* the ends j of a match of \[\d+\] that starts at i
SuffixAt(s, i) ==
  { j \in (i + 2)..Len(s) :
      s[i] = "[" /\ s[j] = "]" /\ AllDigits(s, i + 1, j - 1) }

RECURSIVE BracketSearchFrom(_, _)
\* the match of \[\d+\] at the first start from i on that has one, '' when
\* there is none
BracketSearchFrom(s, i) ==
  IF i > Len(s) THEN <<>>
  ELSE IF SuffixAt(s, i) = {} THEN BracketSearchFrom(s, i + 1)
  ELSE SubSeq(s, i, Min(SuffixAt(s, i)))

\* lines 243-244: group(1) of re.search(r'(\[\d+\])', basename), or ''
BracketSuffix(basename) == BracketSearchFrom(basename, 1)

IsPreferred(basename) == BracketSuffix(basename) \in PREFERRED_SUFFIXES

\* a handler that catches ValueError alone
Caught_ValueErrorOnly(exc) == exc = "ValueError"

\* the exceptions `except Exception` catches
Caught(exc) ==
  exc \in {"InvalidFileException", "KeyError", "ValueError", "OSError",
           "OverflowError"}

\* lines 237-249, r being what parse_flash_report did:
\*   skip   it returned None
\*   entry  the tuple appended to parsed_by_date[rdate]
\*   raise  an exception left the body of the try
EntryOf(f, r) ==
  IF r.ret = "raise" THEN [kind |-> "raise", exc |-> r.exc]
  ELSE IF r.value = None THEN [kind |-> "skip"]
  ELSE IF ~f.statable THEN [kind |-> "raise", exc |-> "OSError"]
  ELSE [kind |-> "entry",
        rdate |-> r.value.date,
        entry |-> [filepath |-> f.path, mtime |-> f.mtime,
                   preferred |-> IsPreferred(f.path),
                   result |-> r.value]]

\* the body of the try of lines 235-249 for one file
TryFile(f) == EntryOf(f, parse_flash_report(f))

\* parsed_by_date is a dict, which keeps its keys in insertion order:
\* a sequence of [rdate, entries]
HasDate(pbd, rdate) == \E k \in 1..Len(pbd) : pbd[k].rdate = rdate

\* a list of its own for every file, whatever its date
SetDefaultAppend_NoGroup(pbd, rdate, entry) ==
  Append(pbd, [rdate |-> rdate, entries |-> <<entry>>])

\* parsed_by_date.setdefault(rdate, []).append(entry)
SetDefaultAppend(pbd, rdate, entry) ==
  IF HasDate(pbd, rdate)
  THEN [k \in 1..Len(pbd) |->
          IF pbd[k].rdate = rdate
          THEN [pbd[k] EXCEPT !.entries = Append(@, entry)]
          ELSE pbd[k]]
  ELSE Append(pbd, [rdate |-> rdate, entries |-> <<entry>>])

\* lines 247-252, o being what the body of the try did: parsed_by_date after
\* it, or the exception the except clause does not catch
Handle(pbd, o) ==
  CASE o.kind = "entry" ->
         [ret |-> "value", value |-> SetDefaultAppend(pbd, o.rdate, o.entry)]
    [] o.kind = "skip" -> [ret |-> "value", value |-> pbd]
    [] o.kind = "raise" ->
         IF Caught(o.exc) THEN [ret |-> "value", value |-> pbd]
         ELSE [ret |-> "raise", exc |-> o.exc]

\* one turn of the loop of lines 234-252
FirstPassStep(pbd, f) == Handle(pbd, TryFile(f))

----------------------------------------------------------------------------
(* load_all_reports: the second pass *)

\* the key (e[1], e[2]): the modification time first
KeyLess_MtimeFirst(a, b) ==
  \/ a.mtime < b.mtime
  \/ a.mtime = b.mtime /\ ~a.preferred /\ b.preferred

\* the key (e[2],): the modification time left out
KeyLess_PreferredOnly(a, b) == ~a.preferred /\ b.preferred

\* equal keys taken for smaller: a sort that puts the later of two equal
\* entries first
KeyLess_OrEqual(a, b) ==
  \/ ~a.preferred /\ b.preferred
  \/ a.preferred = b.preferred /\ a.mtime <= b.mtime

\* no key at all: the list stays in the order of the enumeration
KeyLess_Never(a, b) == FALSE

\* the sort key (e[2], e[1]) of line 263, tuples compared left to right with
\* False < True
KeyLess(a, b) ==
  \/ ~a.preferred /\ b.preferred
  \/ a.preferred = b.preferred /\ a.mtime < b.mtime

RECURSIVE InsertDesc(_, _)
\* e put into a list sorted in descending key order, after the entries whose
\* key is not smaller: list.sort is stable, with reverse=True too
InsertDesc(sorted, e) ==
  IF sorted = <<>> THEN <<e>>
  ELSE IF KeyLess(Head(sorted), e) THEN <<e>> \o sorted
  ELSE <<Head(sorted)>> \o InsertDesc(Tail(sorted), e)

RECURSIVE SortEntries(_)
\* entries.sort(key=lambda e: (e[2], e[1]), reverse=True)
SortEntries(entries) ==
  IF entries = <<>> THEN <<>>
  ELSE InsertDesc(SortEntries(SubSeq(entries, 1, Len(entries) - 1)),
                  entries[Len(entries)])

Winner(entries) == SortEntries(entries)[1]

----------------------------------------------------------------------------
(* load_all_reports: the tables *)

SALES_KEYS == {"date", "store", "day_sales_ty", "day_sales_ly",
  "day_sales_diff", "day_sales_pct", "wtd_sales_ty", "wtd_sales_ly",
  "wtd_sales_diff", "wtd_sales_pct", "ptd_sales_ty", "ptd_sales_ly",
  "ptd_sales_diff", "ptd_sales_pct", "ytd_sales_ty", "ytd_sales_ly",
  "ytd_sales_diff", "ytd_sales_pct", "r13_sales_ty", "r13_sales_ly",
  "r13_sales_diff", "r13_sales_pct"}

BRAND_KEYS == SALES_KEYS \ {"store"}

TRANS_KEYS == {"date", "store", "day_trans_ty", "day_trans_ly",
  "day_trans_diff", "day_trans_pct", "wtd_trans_ty", "wtd_trans_ly",
  "wtd_trans_diff", "wtd_trans_pct", "ptd_trans_ty", "ptd_trans_ly",
  "ptd_trans_diff", "ptd_trans_pct", "ytd_trans_ty", "ytd_trans_ly",
  "ytd_trans_diff", "ytd_trans_pct", "r13_trans_ty", "r13_trans_ly",
  "r13_trans_diff", "r13_trans_pct"}

CHANNEL_KEYS == {"date", "store", "avg_check_ty", "avg_check_ly",
  "avg_check_diff", "avg_check_pct", "dine_in_sales", "dine_in_trans",
  "dine_in_avg_check", "dine_in_pct_sales", "carry_out_sales",
  "carry_out_trans", "carry_out_avg_check", "carry_out_pct_sales",
  "delivery_sales", "delivery_trans", "delivery_avg_check",
  "delivery_pct_sales", "drive_thru_sales", "drive_thru_trans",
  "drive_thru_avg_check", "drive_thru_pct_sales"}

LABOR_KEYS == {"date", "store", "labor_dollars", "labor_pct", "olo_sales",
  "doordash", "ubereats", "grubhub", "eatstreet", "ezcater",
  "total_3rd_party_dollars", "total_3rd_party_pct"}

\* pd.DataFrame(records) if records else pd.DataFrame(): the columns of a
\* frame built from dicts are the keys of the dicts; a frame built from
\* nothing has no column
DataFrame(records, keys) ==
  IF records # <<>> THEN [columns |-> keys, rows |-> records]
  ELSE [columns |-> {}, rows |-> <<>>]

RECURSIVE InsertAsc(_, _)
InsertAsc(sorted, r) ==
  IF sorted = <<>> THEN <<r>>
  ELSE IF DateKey(r.date) < DateKey(Head(sorted).date) THEN <<r>> \o sorted
  ELSE <<Head(sorted)>> \o InsertAsc(Tail(sorted), r)

RECURSIVE SortRows(_)
\* the row order of sort_values('date'): ascending; rows of one date stay in
\* the order they had (the sort of a frame of this size is an insertion sort)
SortRows(rows) ==
  IF rows = <<>> THEN <<>>
  ELSE InsertAsc(SortRows(SubSeq(rows, 1, Len(rows) - 1)), rows[Len(rows)])

\* the frame as it was built
SortByDate_Unsorted(df) == df

\* lines 283-284
SortByDate(df) ==
  IF df.rows # <<>> /\ "date" \in df.columns
  THEN [df EXCEPT !.rows = SortRows(df.rows)]
  ELSE df

\* lines 273-286: the five frames, each sorted by date
BuildData(sales, brand_totals, transactions, channels, labor) ==
  [sales |-> SortByDate(DataFrame(sales, SALES_KEYS)),
   brand_totals |-> SortByDate(DataFrame(brand_totals, BRAND_KEYS)),
   transactions |-> SortByDate(DataFrame(transactions, TRANS_KEYS)),
   channels |-> SortByDate(DataFrame(channels, CHANNEL_KEYS)),
   labor |-> SortByDate(DataFrame(labor, LABOR_KEYS))]

TableNames == {"sales", "brand_totals", "transactions", "channels", "labor"}
StoreTables == {"sales", "transactions", "channels", "labor"}

----------------------------------------------------------------------------
(* load_all_reports as a function of the enumerated files *)

\* the loop of lines 234-252 continued after one turn
RECURSIVE FirstPassAll(_, _)
FirstPassRest(step, fs) ==
  IF step.ret = "raise" THEN step ELSE FirstPassAll(step.value, fs)

\* parsed_by_date after the loop of lines 234-252 over fs, or the exception
\* that left it
FirstPassAll(pbd, fs) ==
  IF fs = <<>> THEN [ret |-> "value", value |-> pbd]
  ELSE FirstPassRest(FirstPassStep(pbd, Head(fs)), Tail(fs))

RECURSIVE Concat(_)
Concat(seqs) == IF seqs = <<>> THEN <<>> ELSE Head(seqs) \o Concat(Tail(seqs))

\* lines 261-286 from the results of the winners, in the order of the dates
Tables(results) ==
  BuildData(Concat([k \in 1..Len(results) |-> results[k].sales]),
            [k \in 1..Len(results) |-> results[k].brand_total],
            Concat([k \in 1..Len(results) |-> results[k].transactions]),
            Concat([k \in 1..Len(results) |-> results[k].channels]),
            Concat([k \in 1..Len(results) |-> results[k].labor]))

\* lines 254-286, first being what the first pass did
SecondPassAll(first) ==
  IF first.ret = "raise" THEN first
  ELSE [ret |-> "value",
        value |-> Tables([k \in 1..Len(first.value) |->
                            Winner(first.value[k].entries).result])]

load_all_reports(fs) == SecondPassAll(FirstPassAll(<<>>, fs))

----------------------------------------------------------------------------
(* The folders the loader is run on *)

Chars(n) ==
  CASE n = 50 -> <<"[", "5", "0", "]">>
    [] n = 74 -> <<"[", "7", "4", "]">>

\* Multibrand_FlashReport.xlsx, ...[50].xlsx, ...[74].xlsx, ...[50][74].xlsx,
\* ...[74][50].xlsx
Names == <<Chars(50), Chars(74), <<>>, Chars(50) \o Chars(74),
           Chars(74) \o Chars(50)>>

SELECTED_DATE == <<"S", "e", "l", "e", "c", "t", "e", "d", " ",
                   "D", "a", "t", "e", ":">>

\* 'Selected Date:2/21/2026' and 'Selected Date:2/22/2026'
GoodHeaders ==
  { Str(SELECTED_DATE \o <<"2", "/", "2", "1", "/", "2", "0", "2", "6">>),
    Str(SELECTED_DATE \o <<"2", "/", "2", "2", "/", "2", "0", "2", "6">>) }

\* an empty cell, a header without a date, 'Selected Date:13/45/2026'
BadHeaders ==
  { None, Str(SELECTED_DATE),
    Str(SELECTED_DATE \o <<"1", "3", "/", "4", "5", "/", "2", "0", "2", "6">>) }

\* the label cells the sheets are filled with
Labels ==
  { None, Str(<<>>), Str(<<" ">>), Str(<<"A">>), Str(<<"A", " ">>),
    Str(<<"B">>), Str(TOTALS), Str(<<"t", "o", "t", "a", "l", "s">>),
    Str(<<"T", "O", "T", "A", "L", "S">>),
    Str(<<"A", " ">> \o TOTALS), Str(BRAND) }

DefaultLayout == <<Str(<<"A">>)>>

\* the number the numeric cells of a report hold unless said otherwise
DefaultCell == IntCell(5)

File(path, mtime, a2, labels) ==
  [path |-> path, mtime |-> mtime, readable |-> TRUE, has_sheet |-> TRUE,
   statable |-> TRUE, a2 |-> a2, labels |-> labels, cell |-> DefaultCell]

\* sequences of length n over S
SeqsOf(S, n) == [1..n -> S]

Injective(q) == \A a, b \in DOMAIN q : a # b => q[a] # q[b]

\* the names with a bracketed tag
TaggedNames == { k \in 1..Len(Names) : Names[k] # <<>> }

\* a folder of readable reports with the default sheet: any tagged names, in
\* any enumeration order, any modification times, either date
WinnerDir(d) ==
  \E n \in 0..MaxFiles :
    \E nm \in SeqsOf(TaggedNames, n), mt \in SeqsOf(1..MaxMtime, n),
       hd \in SeqsOf(GoodHeaders, n) :
      /\ Injective(nm)
      /\ d = [k \in 1..n |-> File(Names[nm[k]], mt[k], hd[k], DefaultLayout)]

\* a folder of one report with any labels, alone or beside a second report
\* of the same date
RowDir(d) ==
  \E hd \in GoodHeaders, labels \in SeqsOf(Labels, MaxLabelRows) :
    LET f == File(Names[1], 1, hd, labels)
        g == File(Names[2], 1, hd, DefaultLayout)
    IN  \/ d = <<f>>
        \/ d = <<f, g>>
        \/ d = <<g, f>>

\* what can be wrong with a file
FileKinds ==
  { [readable |-> TRUE, has_sheet |-> TRUE, statable |-> TRUE, a2 |-> h] :
      h \in GoodHeaders \cup BadHeaders }
  \cup
  { [readable |-> r[1], has_sheet |-> r[2], statable |-> r[3],
     a2 |-> CHOOSE h \in GoodHeaders : TRUE] :
      r \in { <<FALSE, TRUE, TRUE>>, <<TRUE, FALSE, TRUE>>,
              <<TRUE, TRUE, FALSE>> } }

\* a folder whose k-th file has the k-th name and is of any kind
FaultDir(d) ==
  \E n \in 0..MaxFiles :
    \E kd \in SeqsOf(FileKinds, n) :
      d = [k \in 1..n |->
             [path |-> Names[k], mtime |-> 1, readable |-> kd[k].readable,
              has_sheet |-> kd[k].has_sheet, statable |-> kd[k].statable,
              a2 |-> kd[k].a2, labels |-> DefaultLayout,
              cell |-> DefaultCell]]

\* what a numeric cell can hold: nothing, '', '-', ' ', text that is no
\* number ('abc', '1,234', '1.2.3', '--'), numerals ('12', '-12', '12.9',
\* '-12.9', '0.5', '-0.5', '12.', '.5', ' 7 ', '+3.2'), infinities and
\* not-a-numbers ('inf', '-inf', 'Infinity', 'nan', 'NaN'), numbers, a
\* datetime
TextCells ==
  { <<>>, <<"-">>, <<" ">>, <<"a", "b", "c">>, <<"1", ",", "2", "3", "4">>,
    <<"1", ".", "2", ".", "3">>, <<"-", "-">>,
    <<"1", "2">>, <<"-", "1", "2">>, <<"1", "2", ".", "9">>,
    <<"-", "1", "2", ".", "9">>, <<"0", ".", "5">>, <<"-", "0", ".", "5">>,
    <<"1", "2", ".">>, <<".", "5">>, <<" ", "7", " ">>,
    <<"+", "3", ".", "2">>,
    INF, <<"-">> \o INF, <<"I", "n", "f", "i", "n", "i", "t", "y">>,
    NAN, <<"N", "a", "N">> }

Cells ==
  { None, DateTime, IntCell(5), IntCell(-3), Fin(FALSE, 12, <<"9">>),
    Fin(TRUE, 12, <<"9">>), Fin(FALSE, 7, <<>>), Inf(FALSE), NaN }
  \cup { Str(s) : s \in TextCells }

\* a folder of one report whose numeric cells hold any of the values
CellDir(d) ==
  \E c \in Cells, hd \in GoodHeaders :
    d = <<[File(Names[1], 1, hd, DefaultLayout) EXCEPT !.cell = c]>>

----------------------------------------------------------------------------
(* load_all_reports as a state machine *)

VARIABLES
  files,             \* what glob.glob returned, in its order
  pc,                \* where load_all_reports is: "first_pass",
                     \* "second_pass", "done" (returned), "raised", and
                     \* "none" when it is not called
  i,                 \* files the first pass has handled
  parsed_by_date,
  j,                 \* dates the second pass has handled
  all_sales, all_brand_totals, all_transactions, all_channels, all_labor,
  data,              \* the returned dict of frames
  error,             \* the exception that left load_all_reports
  \* dashboard.py
  cache,             \* what st.cache_data holds for get_data
  page_data,         \* `data` of the last script run
  run,               \* "run": a script run is due; "loading": it is in
                     \* get_data; "idle": the page is shown
  refresh,           \* how the last click on Refresh Data went
  previous           \* what was cached when Refresh Data was clicked; what
                     \* the first of two calls of load_all_reports returned

loaderVars == <<pc, i, parsed_by_date, j, all_sales, all_brand_totals,
                all_transactions, all_channels, all_labor, data, error>>

dashVars == <<cache, page_data, run, refresh, previous>>

vars == <<files, loaderVars, dashVars>>

allLists == <<all_sales, all_brand_totals, all_transactions, all_channels,
              all_labor>>

\* load_all_reports is entered (lines 227-232)
LoaderInit ==
  /\ pc = "first_pass"
  /\ i = 0
  /\ parsed_by_date = <<>>
  /\ j = 0
  /\ all_sales = <<>>
  /\ all_brand_totals = <<>>
  /\ all_transactions = <<>>
  /\ all_channels = <<>>
  /\ all_labor = <<>>
  /\ data = None
  /\ error = None

\* no script run yet
DashInit ==
  /\ cache = None
  /\ page_data = None
  /\ run = "run"
  /\ refresh = "none"
  /\ previous = None

\* load_all_reports called on a folder, as python data_loader.py does
Init ==
  /\ WinnerDir(files) \/ RowDir(files) \/ FaultDir(files)
  /\ LoaderInit
  /\ DashInit

\* one turn of the loop of lines 234-252
FirstPass ==
  /\ pc = "first_pass"
  /\ i < Len(files)
  /\ \E step \in {FirstPassStep(parsed_by_date, files[i + 1])} :
       IF step.ret = "value"
       THEN /\ parsed_by_date' = step.value
            /\ i' = i + 1
            /\ UNCHANGED <<pc, error>>
       ELSE /\ pc' = "raised"
            /\ error' = Str(step.exc)
            /\ UNCHANGED <<parsed_by_date, i>>
  /\ UNCHANGED <<files, j, allLists, data, dashVars>>

\* the five lists kept from an earlier call
BeginSecondPass_KeepLists ==
  /\ pc = "first_pass"
  /\ i = Len(files)
  /\ pc' = "second_pass"
  /\ j' = 0
  /\ UNCHANGED <<files, i, parsed_by_date, allLists, data, error, dashVars>>

\* lines 254-259
BeginSecondPass ==
  /\ pc = "first_pass"
  /\ i = Len(files)
  /\ pc' = "second_pass"
  /\ j' = 0
  /\ all_sales' = <<>>
  /\ all_brand_totals' = <<>>
  /\ all_transactions' = <<>>
  /\ all_channels' = <<>>
  /\ all_labor' = <<>>
  /\ UNCHANGED <<files, i, parsed_by_date, data, error, dashVars>>

\* one turn of the loop of lines 261-271
SecondPass ==
  /\ pc = "second_pass"
  /\ j < Len(parsed_by_date)
  /\ \E entries \in {SortEntries(parsed_by_date[j + 1].entries)} :
       \E winner \in {entries[1]} :
         /\ parsed_by_date' =
              [parsed_by_date EXCEPT ![j + 1].entries = entries]
         /\ all_sales' = all_sales \o winner.result.sales
         /\ all_brand_totals' =
              Append(all_brand_totals, winner.result.brand_total)
         /\ all_transactions' =
              all_transactions \o winner.result.transactions
         /\ all_channels' = all_channels \o winner.result.channels
         /\ all_labor' = all_labor \o winner.result.labor
  /\ j' = j + 1
  /\ UNCHANGED <<files, pc, i, data, error, dashVars>>

\* lines 273-286
Return ==
  /\ pc = "second_pass"
  /\ j = Len(parsed_by_date)
  /\ data' = BuildData(all_sales, all_brand_totals, all_transactions,
                       all_channels, all_labor)
  /\ pc' = "done"
  /\ UNCHANGED <<files, i, parsed_by_date, j, allLists, error, dashVars>>

Next == FirstPass \/ BeginSecondPass \/ SecondPass \/ Return

Spec == Init /\ [][Next]_vars

\* load_all_reports called on a folder of one report, for every value its
\* numeric cells can hold: the coercions of every record are applied to it
CellInit ==
  /\ CellDir(files)
  /\ LoaderInit
  /\ DashInit

CellSpec == CellInit /\ [][Next]_vars

----------------------------------------------------------------------------
(* load_all_reports on the orders glob.glob can return the files in *)

\* a folder of readable reports, its files taken in the order of Names; the
\* other orders of the same files are the permutations of it
OrderDir(d) ==
  /\ WinnerDir(d)
  /\ \A a, b \in DOMAIN d :
       a < b => (CHOOSE k \in TaggedNames : Names[k] = d[a].path)
                  < (CHOOSE k \in TaggedNames : Names[k] = d[b].path)

OrderInit ==
  /\ OrderDir(files)
  /\ LoaderInit
  /\ DashInit

OrderSpec == OrderInit /\ [][Next]_vars

\* the orders of n files
Orders(n) == { p \in [1..n -> 1..n] : Injective(p) }

\* the files fs as glob.glob returns them in the order p
Enumerated(fs, p) == [k \in 1..Len(fs) |-> fs[p[k]]]

----------------------------------------------------------------------------
(* load_all_reports called twice on one folder *)

\* a folder of readable reports that all have one modification time
TieDir(d) ==
  /\ WinnerDir(d)
  /\ \A a, b \in DOMAIN d : d[a].mtime = d[b].mtime

RepeatInit ==
  /\ TieDir(files) \/ RowDir(files) \/ FaultDir(files)
  /\ LoaderInit
  /\ DashInit

\* load_all_reports has returned and is called again on the folder, which
\* has not changed and is enumerated in the same order (lines 227-232).  The
\* names all_sales ... all_labor are bound again by lines 254-258.
CallAgain ==
  /\ pc = "done"
  /\ previous = None
  /\ previous' = data
  /\ pc' = "first_pass"
  /\ i' = 0
  /\ parsed_by_date' = <<>>
  /\ j' = 0
  /\ data' = None
  /\ error' = None
  /\ UNCHANGED <<files, allLists, cache, page_data, run, refresh>>

RepeatNext == Next \/ CallAgain

RepeatSpec == RepeatInit /\ [][RepeatNext]_vars

----------------------------------------------------------------------------
(* dashboard.py: get_data behind st.cache_data, and the Refresh Data button *)

\* the folders the dashboard is run on: empty, one report, two reports
DashDirs ==
  { <<>> }
  \cup { <<File(Names[1], 1, hd, DefaultLayout)>> : hd \in GoodHeaders }
  \cup { <<File(Names[1], 1, hd, DefaultLayout),
           File(Names[2], 1, CHOOSE h \in GoodHeaders : h # hd,
                DefaultLayout)>> : hd \in GoodHeaders }

DashboardInit ==
  /\ files \in DashDirs
  /\ pc = "none"
  /\ i = 0
  /\ parsed_by_date = <<>>
  /\ j = 0
  /\ all_sales = <<>>
  /\ all_brand_totals = <<>>
  /\ all_transactions = <<>>
  /\ all_channels = <<>>
  /\ all_labor = <<>>
  /\ data = None
  /\ error = None
  /\ DashInit

\* lines 83-85 and 130: the button is on the page when the script run got a
\* dataset whose sales table is not empty
ButtonShown ==
  /\ run = "idle"
  /\ page_data # None
  /\ page_data.t = "data"
  /\ page_data.value.sales.rows # <<>>

\* the outcome of the click once the rerun has called get_data
Settled(outcome) == IF refresh = "pending" THEN outcome ELSE "none"

\* lines 71-76, a cached value: get_data returns it
GetDataHit ==
  /\ run = "run"
  /\ cache # None
  /\ page_data' = [t |-> "data", value |-> cache]
  /\ run' = "idle"
  /\ refresh' = Settled("kept")
  /\ UNCHANGED <<files, loaderVars, cache, previous>>

\* lines 71-76, nothing cached: get_data calls load_all_reports
GetDataCall ==
  /\ run = "run"
  /\ cache = None
  /\ run' = "loading"
  /\ pc' = "first_pass"
  /\ i' = 0
  /\ parsed_by_date' = <<>>
  /\ j' = 0
  /\ all_sales' = <<>>
  /\ all_brand_totals' = <<>>
  /\ all_transactions' = <<>>
  /\ all_channels' = <<>>
  /\ all_labor' = <<>>
  /\ data' = None
  /\ error' = None
  /\ UNCHANGED <<files, cache, page_data, refresh, previous>>

\* lines 71-76: load_all_reports has returned; what it returned is cached
\* and is the data of the script run
GetDataStore ==
  /\ run = "loading"
  /\ pc = "done"
  /\ cache' = data
  /\ page_data' = [t |-> "data", value |-> data]
  /\ run' = "idle"
  /\ pc' = "none"
  /\ refresh' = Settled("replaced")
  /\ UNCHANGED <<files, i, parsed_by_date, j, allLists, data, error,
                 previous>>

\* lines 71-76: an exception leaves load_all_reports (one it does not catch:
\* a failure outside the try of the file loop, or of the print in its except
\* clause); it leaves get_data, nothing is cached and the script run ends
\* with the error
GetDataRaise ==
  /\ run = "loading"
  /\ pc \in {"first_pass", "second_pass"}
  /\ pc' = "raised"
  /\ error' = Str("Error")
  /\ page_data' = [t |-> "error"]
  /\ run' = "idle"
  /\ refresh' = Settled("failed")
  /\ UNCHANGED <<files, i, parsed_by_date, j, allLists, data, cache,
                 previous>>

\* lines 130-132: st.cache_data.clear() and st.rerun()
RefreshData ==
  /\ ButtonShown
  /\ previous' = cache
  /\ cache' = None
  /\ run' = "run"
  /\ refresh' = "pending"
  /\ UNCHANGED <<files, loaderVars, page_data>>

\* a widget is used, or the page is loaded again: the script runs again
Interact ==
  /\ run = "idle"
  /\ run' = "run"
  /\ refresh' = "none"
  /\ UNCHANGED <<files, loaderVars, cache, page_data, previous>>

\* line 71: the cached value is older than ttl=60 seconds and is dropped
TtlExpires ==
  /\ cache # None
  /\ refresh # "pending"
  /\ cache' = None
  /\ refresh' = "none"
  /\ UNCHANGED <<files, loaderVars, page_data, run, previous>>

\* report files are added to the folder or removed from it, between two
\* loads
FolderChanges ==
  /\ run # "loading"
  /\ \E d \in DashDirs :
       /\ d # files
       /\ files' = d
  /\ UNCHANGED <<loaderVars, dashVars>>

DashboardNext ==
  \/ GetDataHit \/ GetDataCall \/ GetDataStore \/ GetDataRaise
  \/ FirstPass \/ BeginSecondPass \/ SecondPass \/ Return
  \/ RefreshData \/ Interact \/ TtlExpires \/ FolderChanges

DashboardSpec == DashboardInit /\ [][DashboardNext]_vars

----------------------------------------------------------------------------
(* What the claims speak about *)

Range(q) == { q[k] : k \in DOMAIN q }

\* the rows of a returned table
Rows(t) == data[t].rows

\* the enumerated file with a path (the paths of a folder differ)
FileAt(path) == CHOOSE f \in Range(files) : f.path = path

\* the candidates of the k-th date, as the first pass recorded them
Candidates(k) == Range(parsed_by_date[k].entries)

\* the candidate whose records the tables hold for the k-th date: the source
\* of the date's brand-total row
WinnerOf(k) ==
  CHOOSE e \in Candidates(k) :
    \E n \in 1..Len(Rows("brand_totals")) :
      /\ Rows("brand_totals")[n].date = parsed_by_date[k].rdate
      /\ Rows("brand_totals")[n].src = e.filepath

\* a file that load_workbook, the sheet lookup, the header date, a coercion
\* or getmtime fails on
Failing(f) ==
  \/ ~f.readable \/ ~f.has_sheet \/ ~f.statable \/ f.a2 \in BadHeaders
  \/ ScanRaises(f)

----------------------------------------------------------------------------
(* Claims *)

\* C1: when load_all_reports has returned, for every date that has a
\* candidate flagged preferred and a candidate not flagged preferred, every
\* row of that date in the five tables comes from a candidate flagged
\* preferred, whatever the modification times are.
C1_PreferredBeatsNewer ==
  pc = "done" =>
    \A k \in 1..Len(parsed_by_date) :
      (\E a, b \in Candidates(k) : a.preferred /\ ~b.preferred) =>
        \A t \in TableNames : \A n \in 1..Len(Rows(t)) :
          Rows(t)[n].date = parsed_by_date[k].rdate =>
            \E w \in Candidates(k) :
              w.filepath = Rows(t)[n].src /\ w.preferred

\* a date whose preferred candidate is older than a candidate that is not
\* preferred, after the return
C1_Witness ==
  /\ pc = "done"
  /\ \E k \in 1..Len(parsed_by_date) : \E a, b \in Candidates(k) :
       /\ a.preferred /\ ~b.preferred /\ a.mtime < b.mtime
       /\ \E n \in 1..Len(Rows("sales")) : Rows("sales")[n].src = a.filepath

\* C2: when load_all_reports has returned, for every date whose candidates
\* all have the same preference flag, the winner's modification time is the
\* greatest among the candidates of the date.
C2_NewestWinsAmongEquals ==
  pc = "done" =>
    \A k \in 1..Len(parsed_by_date) :
      (\A a, b \in Candidates(k) : a.preferred = b.preferred) =>
        \A c \in Candidates(k) : c.mtime <= WinnerOf(k).mtime

\* a date with two candidates of one preference flag and different
\* modification times, the older enumerated after the newer or before it
C2_Witness ==
  /\ pc = "done"
  /\ \E k \in 1..Len(parsed_by_date) :
       /\ \A a, b \in Candidates(k) : a.preferred = b.preferred
       /\ Len(parsed_by_date[k].entries) >= 2
       /\ \E c \in Candidates(k) : c.mtime < WinnerOf(k).mtime

\* C3: a candidate is flagged preferred exactly when its file name contains
\* one of the preferred tags as a substring, at any position.
C3_PreferredIffNameContainsTag ==
  \A k \in 1..Len(parsed_by_date) : \A e \in Candidates(k) :
    e.preferred <=> \E tag \in PREFERRED_SUFFIXES : Contains(e.filepath, tag)

\* C4: when load_all_reports has returned, all rows of one date in the five
\* tables come from one file, the first of the date's candidates in the
\* sorted order; no row of another candidate of the date is in a table.
C4_OneSourcePerDate ==
  pc = "done" =>
    /\ \A t \in TableNames : \A n \in 1..Len(Rows(t)) :
         \E k \in 1..Len(parsed_by_date) :
           /\ parsed_by_date[k].rdate = Rows(t)[n].date
           /\ parsed_by_date[k].entries[1].filepath = Rows(t)[n].src
    /\ \A t, u \in TableNames :
         \A n \in 1..Len(Rows(t)) : \A m \in 1..Len(Rows(u)) :
           Rows(t)[n].date = Rows(u)[m].date =>
             Rows(t)[n].src = Rows(u)[m].src
    /\ \A k \in 1..Len(parsed_by_date) :
         \E n \in 1..Len(Rows("brand_totals")) :
           Rows("brand_totals")[n].date = parsed_by_date[k].rdate

\* a date with two candidates, rows of the winner in the sales table
C4_Witness ==
  /\ pc = "done"
  /\ \E k \in 1..Len(parsed_by_date) :
       /\ Len(parsed_by_date[k].entries) >= 2
       /\ \E n \in 1..Len(Rows("sales")) :
            Rows("sales")[n].date = parsed_by_date[k].rdate

\* C5: when load_all_reports has returned, no per-store table has two rows
\* with the same date and store.
C5_NoDuplicateDateStore ==
  pc = "done" =>
    \A t \in StoreTables : \A n, m \in 1..Len(Rows(t)) :
      (Rows(t)[n].date = Rows(t)[m].date
         /\ Rows(t)[n].store = Rows(t)[m].store) => n = m

\* C6: no exception leaves load_all_reports because of a failing file, and
\* for a folder with failing files what it returns is what it returns for
\* the enumeration without the failing files.
C6_FailingFilesAreAbsent ==
  /\ pc # "raised"
  /\ (pc = "done" /\ \E k \in 1..Len(files) : Failing(files[k])) =>
       data = load_all_reports(SelectSeq(files, LAMBDA f : ~Failing(f))).value

\* a folder with a failing file and a file that is parsed, after the return
C6_Witness ==
  /\ pc = "done"
  /\ \E f \in Range(files) : Failing(f)
  /\ Rows("sales") # <<>>

\* C7: when no enumerated file is parsed, load_all_reports returns five
\* empty tables that carry the columns of their record kind.
C7_EmptyTablesKeepSchema ==
  (pc = "done" /\ \A f \in Range(files) : Failing(f)) =>
    /\ \A t \in TableNames : Rows(t) = <<>>
    /\ data.sales.columns = SALES_KEYS
    /\ data.brand_totals.columns = BRAND_KEYS
    /\ data.transactions.columns = TRANS_KEYS
    /\ data.channels.columns = CHANNEL_KEYS
    /\ data.labor.columns = LABOR_KEYS

\* C8: after a click on Refresh Data whose recompute failed, the dataset
\* that was cached before the click is still cached.
C8_FailedRefreshKeepsPrevious ==
  (refresh = "failed" /\ previous # None) => cache = previous

\* C9: every returned table is sorted by date, ascending.
C9_TablesSortedByDate ==
  pc = "done" =>
    \A t \in TableNames : \A n \in 1..(Len(Rows(t)) - 1) :
      DateKey(Rows(t)[n].date) <= DateKey(Rows(t)[n + 1].date)

\* two dates, the later one enumerated first, after the return
C9_Witness ==
  /\ pc = "done"
  /\ Len(parsed_by_date) >= 2
  /\ DateKey(parsed_by_date[1].rdate) > DateKey(parsed_by_date[2].rdate)
  /\ Len(Rows("sales")) >= 2

\* C10: no per-store record of a parsed file comes from a row whose label
\* contains the word totals in any letter case.
C10_NoTotalsRowInAnyCase ==
  \A k \in 1..Len(parsed_by_date) : \A e \in Candidates(k) :
    \A t \in StoreTables : \A n \in 1..Len(e.result[t]) :
      ~Contains(Lower(Label(FileAt(e.filepath), e.result[t][n].row).s),
                Lower(TOTALS))

\* the rows of the sales region of a parsed file whose label contains 'Brand'
BrandRows(e) ==
  { r \in FIRST_SALES_ROW..LAST_SALES_ROW :
      Truthy(Label(FileAt(e.filepath), r))
        /\ Contains(Label(FileAt(e.filepath), r).s, BRAND) }

\* C11: a row of the sales region whose label contains 'Brand' gives no
\* per-store sales record, and the brand-total record of the file is read
\* from that row.
C11_BrandRowBecomesBrandTotal ==
  \A k \in 1..Len(parsed_by_date) : \A e \in Candidates(k) :
    \A r \in BrandRows(e) :
      /\ \A n \in 1..Len(e.result.sales) : e.result.sales[n].row # r
      /\ e.result.brand_total.row = r

\* an opened report whose header cell holds no M/D/YYYY token
NoDateToken(f) ==
  /\ f.readable /\ f.has_sheet
  /\ ~Truthy(f.a2) \/ DateSearch(f.a2.s) = None

\* C12: for a report whose header cell holds no M/D/YYYY token,
\* parse_flash_report returns None and raises nothing, and the first pass,
\* having handled the file, has recorded no candidate for it; when
\* load_all_reports has returned, no such file is a candidate and no row of
\* a table comes from one.
C12_NoDateFileIsSkipped ==
  /\ (i >= 1 /\ NoDateToken(files[i])) =>
       /\ parse_flash_report(files[i]).ret = "value"
       /\ parse_flash_report(files[i]).value = None
       /\ \A d \in 1..Len(parsed_by_date) : \A e \in Candidates(d) :
            e.filepath # files[i].path
  /\ pc = "done" =>
       \A k \in 1..Len(files) :
         NoDateToken(files[k]) =>
           /\ \A d \in 1..Len(parsed_by_date) : \A e \in Candidates(d) :
                e.filepath # files[k].path
           /\ \A t \in TableNames : \A n \in 1..Len(Rows(t)) :
                Rows(t)[n].src # files[k].path

\* a folder with a report that has a header without a date and a report that
\* is parsed, after the return
C12_Witness ==
  /\ pc = "done"
  /\ \E k \in 1..Len(files) :
       NoDateToken(files[k]) /\ Truthy(files[k].a2)
  /\ Rows("sales") # <<>>

\* C13: the second of two calls of load_all_reports on an unchanged folder
\* returns what the first call returned: the same tables, rows, row order
\* and values.
C13_SecondCallReturnsSame ==
  (pc = "done" /\ previous # None) => data = previous

\* the second call has returned tables with rows, for a folder with a date
\* that has two candidates
C13_Witness ==
  /\ pc = "done"
  /\ previous # None
  /\ Rows("sales") # <<>>
  /\ \E k \in 1..Len(parsed_by_date) : Len(parsed_by_date[k].entries) >= 2

\* the place of a file in the enumeration
PosOf(path) == CHOOSE k \in 1..Len(files) : files[k].path = path

\* the candidates of the k-th date that tie with its winner: the same
\* preference flag and the same modification time
TiedWithWinner(k) ==
  { c \in Candidates(k) :
      c.preferred = WinnerOf(k).preferred /\ c.mtime = WinnerOf(k).mtime }

\* C14: when load_all_reports has returned, among the candidates of a date
\* that tie with the winner in preference flag and modification time, the
\* winner is the one enumerated first.
C14_TieGoesToFirstEnumerated ==
  pc = "done" =>
    \A k \in 1..Len(parsed_by_date) : \A c \in TiedWithWinner(k) :
      PosOf(WinnerOf(k).filepath) <= PosOf(c.filepath)

\* a date whose winner ties with another candidate, after the return
C14_Witness ==
  /\ pc = "done"
  /\ \E k \in 1..Len(parsed_by_date) :
       /\ Cardinality(TiedWithWinner(k)) >= 2
       /\ \E n \in 1..Len(Rows("sales")) :
            Rows("sales")[n].src = WinnerOf(k).filepath

\* C15: parse_flash_report leaves no workbook it opened unclosed, whether it
\* returns a report, returns None or raises.
C15_WorkbookClosedOnEveryPath ==
  \A k \in 1..i : parse_flash_report(files[k]).wb # "open"

\* the cell values None, '' and '-'
EmptyCells == { None, Str(<<>>), Str(<<"-">>) }

\* the rows of a returned table that come from a file
RowsFrom(t, path) ==
  { Rows(t)[n] : n \in { m \in 1..Len(Rows(t)) : Rows(t)[m].src = path } }

\* C16: for a cell value None, '' or '-', safe_float returns 0.0 and safe_int
\* returns 0 and neither raises; the records read from such cells hold these
\* defaults.
C16_EmptyCellsGiveDefault ==
  \A k \in 1..i :
    files[k].cell \in EmptyCells =>
      /\ safe_float(files[k].cell) = Returns(Fin(FALSE, 0, <<>>))
      /\ safe_int(files[k].cell) = Returns(0)
      /\ pc = "done" =>
           /\ \A r \in RowsFrom("sales", files[k].path) :
                r.col2 = Fin(FALSE, 0, <<>>)
           /\ \A r \in RowsFrom("transactions", files[k].path) : r.col2 = 0

\* a report whose numeric cells hold '-' has been loaded into the tables
C16_Witness ==
  /\ pc = "done"
  /\ \E k \in 1..Len(files) :
       /\ files[k].cell = Str(<<"-">>)
       /\ RowsFrom("sales", files[k].path) # {}
       /\ RowsFrom("transactions", files[k].path) # {}

\* a cell value with no integer value: float() does not take it, or gives an
\* infinity or a not-a-number
Unconvertible(val) ==
  float(val).ret = "raise" \/ float(val).value.k # "fin"

\* C17: for a cell value that has no integer value, safe_int returns 0 and
\* does not raise.
C17_UnconvertibleGivesZero ==
  \A k \in 1..i :
    Unconvertible(files[k].cell) => safe_int(files[k].cell) = Returns(0)

\* a cell value that float() takes and gives a finite float for
FiniteCell(val) ==
  float(val).ret = "value" /\ float(val).value.k = "fin"

RECURSIVE Pow10(_)
Pow10(n) == IF n = 0 THEN 1 ELSE 10 * Pow10(n - 1)

\* the magnitude of a finite float in units of the last digit of its
\* fraction
Magnitude(x) == x.whole * Pow10(Len(x.frac)) + NumVal(x.frac)

Abs(n) == IF n < 0 THEN -n ELSE n

\* n is x truncated towards zero: the integer of the sign of x (or 0) whose
\* magnitude is the greatest that does not exceed the magnitude of x
IsTruncation(x, n) ==
  /\ Abs(n) * Pow10(Len(x.frac)) <= Magnitude(x)
  /\ Magnitude(x) < (Abs(n) + 1) * Pow10(Len(x.frac))
  /\ n > 0 => ~x.neg
  /\ n < 0 => x.neg

\* C18: for a cell value with a finite float value, safe_int returns that
\* value truncated towards zero, for negative values as for positive ones;
\* the transactions rows read from such cells hold the truncated value.
C18_TruncatesTowardZero ==
  \A k \in 1..i :
    FiniteCell(files[k].cell) =>
      /\ safe_int(files[k].cell).ret = "value"
      /\ IsTruncation(float(files[k].cell).value,
                      safe_int(files[k].cell).value)
      /\ pc = "done" =>
           \A r \in RowsFrom("transactions", files[k].path) :
             IsTruncation(float(files[k].cell).value, r.col2)

\* a report whose cells hold '-12.9' has been loaded: its transactions row
\* holds -12
C18_Witness ==
  /\ pc = "done"
  /\ \E k \in 1..Len(files) :
       /\ files[k].cell = Str(<<"-", "1", "2", ".", "9">>)
       /\ \E r \in RowsFrom("transactions", files[k].path) : r.col2 = -12

\* C19: every per-store record parse_flash_report produces has a store name
\* that is not empty; a row whose label is empty or white space gives no
\* record.
C19_StoreNameNotEmpty ==
  \A k \in 1..Len(parsed_by_date) : \A e \in Candidates(k) :
    \A t \in StoreTables : \A n \in 1..Len(e.result[t]) :
      e.result[t][n].store # <<>>

\* C20: for the header cell of every report it is called on,
\* parse_date_from_cell returns a date or None and does not raise.
C20_ParseDateNeverRaises ==
  \A k \in 1..i :
    (files[k].readable /\ files[k].has_sheet) =>
      /\ parse_date_from_cell(files[k].a2).ret = "value"
      /\ \/ parse_date_from_cell(files[k].a2).value = None
         \/ parse_date_from_cell(files[k].a2).value.t = "date"

\* no two candidates of one date have the same preference flag and the same
\* modification time
NoTies ==
  \A k \in 1..Len(parsed_by_date) : \A a, b \in Candidates(k) :
    (a.preferred = b.preferred /\ a.mtime = b.mtime) => a = b

\* first being what the first pass did for an order of the files: every date
\* has the winner it has in the tables
SameWinners(first) ==
  \A k \in 1..Len(parsed_by_date) :
    \E d \in 1..Len(first.value) :
      /\ first.value[d].rdate = parsed_by_date[k].rdate
      /\ Winner(first.value[d].entries).filepath = WinnerOf(k).filepath

\* first being what the first pass did for an order of the files: the call
\* returns the tables that were returned
SameTables(first) == SecondPassAll(first).value = data

====
